---- MODULE Spec2Model ----
(***************************************************************************)
(* A model of the library catalogue of pjastr/PFsample: Book (book.py),    *)
(* User (user.py) and Library (library.py).                                *)
(*                                                                         *)
(* Python objects live on a heap: `book` and `user` are sequences of       *)
(* object records, and an object's identity is its index.  Neither class   *)
(* defines __eq__, so `x in list` and list.remove compare identities.      *)
(* Texts the code looks into (isbn, title, author, email) are sequences of *)
(* one-character strings; texts it only stores or compares are strings.    *)
(***************************************************************************)
EXTENDS Integers, Sequences, FiniteSets, TLC

VARIABLES book, user, library, file, now, last, steps

vars == <<book, user, library, file, now, last, steps>>

(***************************************************************************)
(* Bounds of the model.                                                    *)
(***************************************************************************)
MaxBookObjs == 2
MaxUserObjs == 2
MaxLibObjs == 2
MaxClock == 1
MaxSteps == 6
BaseYear == 2026

(***************************************************************************)
(* Python's None.  Object identities start at 1 and instants at 0.         *)
(***************************************************************************)
None == -1

(***************************************************************************)
(* Helpers on sequences.                                                   *)
(***************************************************************************)
Range(s) == {s[i] : i \in DOMAIN s}

\* Mutant: drops the first element of the list, whatever it is.
list_remove_head(s, x) == Tail(s)

\* list.remove(x): drops the first element equal to x.
RECURSIVE list_remove(_, _)
list_remove(s, x) ==
    IF s = <<>> THEN <<>>
    ELSE IF Head(s) = x THEN Tail(s)
    ELSE <<Head(s)>> \o list_remove(Tail(s), x)

\* dict: a sequence of [k, v] items in insertion order, keys unique.
dict_keys(d) == {d[i].k : i \in DOMAIN d}

dict_get(d, key) == (CHOOSE i \in DOMAIN d : d[i].k = key)

dict_value(d, key) == d[dict_get(d, key)].v

\* d[key] = val: replaces the value of an existing key in place, else appends.
dict_set(d, key, val) ==
    IF key \in dict_keys(d)
    THEN [d EXCEPT ![dict_get(d, key)] = [k |-> key, v |-> val]]
    ELSE Append(d, [k |-> key, v |-> val])

\* d.pop(key)
RECURSIVE dict_pop(_, _)
dict_pop(d, key) ==
    IF d = <<>> THEN <<>>
    ELSE IF Head(d).k = key THEN Tail(d)
    ELSE <<Head(d)>> \o dict_pop(Tail(d), key)

(***************************************************************************)
(* The clock: datetime.datetime.now() reads `now`; one instant is a year.  *)
(***************************************************************************)
current_year == BaseYear + now

isoformat(t) == <<"iso", t>>

(***************************************************************************)
(* Enums.  auto() numbers the members from 1; .name is the member's name   *)
(* and Enum[name] looks a member up by its name.                           *)
(***************************************************************************)
BookGenre == 1 .. 6

BookGenre_name(g) ==
    CASE g = 1 -> "FANTASY" [] g = 2 -> "MYSTERY" [] g = 3 -> "ROMANCE"
      [] g = 4 -> "BIOGRAPHY" [] g = 5 -> "SCIENCE" [] g = 6 -> "OTHER"

BookGenre_getitem(n) == CHOOSE g \in BookGenre : BookGenre_name(g) = n

UserRole == 1 .. 5

UserRole_name(r) ==
    CASE r = 1 -> "STUDENT" [] r = 2 -> "TEACHER" [] r = 3 -> "LIBRARIAN"
      [] r = 4 -> "ADMIN" [] r = 5 -> "GUEST"

UserRole_getitem(n) == CHOOSE r \in UserRole : UserRole_name(r) = n

(***************************************************************************)
(* Characters.                                                             *)
(***************************************************************************)
AsciiDigits == {"0", "1", "2", "3", "4", "5", "6", "7", "8", "9"}

\* str.isdigit() also accepts digits outside ASCII: superscripts and the
\* digits of other scripts.  Two of them stand for the rest.
OtherDigits == {"SUPERSCRIPT TWO", "ARABIC-INDIC DIGIT ONE"}

LowerLetters == {"a", "b", "c", "d", "e", "h", "i", "j", "m", "n", "o", "r", "t", "u", "x"}

UpperLetters == {"A", "B", "C", "D", "E", "H", "I", "J", "M", "N", "O", "R", "T", "U", "X"}

\* Each lower-case letter with its capital.
LetterPairs ==
    {<<"a", "A">>, <<"b", "B">>, <<"c", "C">>, <<"d", "D">>, <<"e", "E">>, <<"h", "H">>, <<"i", "I">>,
     <<"j", "J">>, <<"m", "M">>, <<"n", "N">>, <<"o", "O">>, <<"r", "R">>, <<"t", "T">>, <<"u", "U">>, <<"x", "X">>}

\* Mutant: lower() leaves the text as it is.
str_lower_same(s) == s

\* str.lower(): every capital becomes its lower-case letter.
str_lower(s) ==
    [i \in DOMAIN s |->
       IF \E p \in LetterPairs : p[2] = s[i]
       THEN (CHOOSE p \in LetterPairs : p[2] = s[i])[1]
       ELSE s[i]]

\* `needle in hay` on texts: needle is a run of consecutive characters of hay.
str_contains(needle, hay) ==
    \E k \in 0 .. Len(hay) - Len(needle) :
       SubSeq(hay, k + 1, k + Len(needle)) = needle

\* str.isdigit(): non-empty and every character is a digit.
str_isdigit(s) == s # <<>> /\ \A i \in DOMAIN s : s[i] \in AsciiDigits \cup OtherDigits

(***************************************************************************)
(* Book.__init__ and Book._validate_isbn.                                  *)
(***************************************************************************)
IsbnLength == 13

MinPublicationYear == 1450

Book_validate_isbn(isbn) ==
    IF Len(isbn) # IsbnLength THEN FALSE ELSE str_isdigit(isbn)

\* Mutant: the two bounds of the year are excluded.
Book_init_raises_bounds_excluded(isbn, publication_year) ==
    \/ ~Book_validate_isbn(isbn)
    \/ publication_year \notin Int
    \/ publication_year <= MinPublicationYear
    \/ publication_year >= current_year

Book_init_raises(isbn, publication_year) ==
    \/ ~Book_validate_isbn(isbn)
    \/ publication_year \notin Int
    \/ publication_year < MinPublicationYear
    \/ publication_year > current_year

\* The object a successful Book(...) returns.
Book_init(title, author, isbn, publication_year, genre) ==
    [title |-> title, author |-> author, genre |-> genre, isbn |-> isbn,
     publication_year |-> publication_year,
     available |-> TRUE, borrow_date |-> None, borrowed_by |-> None]

(***************************************************************************)
(* User.__init__ and User._validate_email: re.match of                     *)
(*   ^[a-zA-Z0-9._%+-]+@[a-zA-Z0-9.-]+\.[a-zA-Z]{2,}$                        *)
(***************************************************************************)
Letters == LowerLetters \cup UpperLetters

LocalChars == Letters \cup AsciiDigits \cup {".", "_", "%", "+", "-"}

DomainChars == Letters \cup AsciiDigits \cup {".", "-"}

\* `$` also matches just before a final line feed.
User_validate_email(email) ==
    \E n \in {Len(email)} \cup {m \in {Len(email) - 1} : m >= 0 /\ email[m + 1] = "LF"} :
      \E at \in 2 .. n, dot \in 3 .. n :
        /\ at + 1 < dot
        /\ dot + 2 <= n
        /\ email[at] = "@"
        /\ email[dot] = "."
        /\ \A i \in 1 .. at - 1 : email[i] \in LocalChars
        /\ \A i \in at + 1 .. dot - 1 : email[i] \in DomainChars
        /\ \A i \in dot + 1 .. n : email[i] \in Letters

User_init_raises(email) == ~User_validate_email(email)

User_init(id, name, email, role) ==
    [id |-> id, name |-> name, role |-> role, email |-> email,
     registration_date |-> now, borrowed_books |-> <<>>, active |-> TRUE]

(***************************************************************************)
(* Library.__init__.                                                       *)
(***************************************************************************)
Library_init(name, location) ==
    [name |-> name, location |-> location, books |-> <<>>, users |-> <<>>,
     creation_date |-> now]

(***************************************************************************)
(* What the callers pass to the constructors.  A string of characters is   *)
(* written as a tuple; positions 3 and 4 of BookInputs and position 3 of   *)
(* UserInputs are rejected by the validation.                              *)
(***************************************************************************)
Isbn1 == <<"9", "7", "8", "0", "2", "6", "1", "1", "0", "3", "3", "4", "4">>

Isbn2 == <<"9", "7", "8", "0", "1", "4", "1", "4", "3", "9", "5", "1", "8">>

IsbnShort == <<"9", "7", "8", "0", "2", "6", "1", "1", "0", "3", "3", "4">>

BookInputs ==
    << [title |-> <<"D", "u", "n", "e">>, author |-> <<"H", "e", "r", "b", "e", "r", "t">>,
        isbn |-> Isbn1, publication_year |-> MinPublicationYear + 515, genre |-> 1],
       [title |-> <<"d", "u", "n", "e", " ", "I", "I">>, author |-> <<"B", "r", "i", "a", "n">>,
        isbn |-> Isbn2, publication_year |-> BaseYear, genre |-> 5],
       [title |-> <<"D", "u", "n", "e">>, author |-> <<"H", "e", "r", "b", "e", "r", "t">>,
        isbn |-> IsbnShort, publication_year |-> MinPublicationYear + 515, genre |-> 1],
       [title |-> <<"D", "u", "n", "e">>, author |-> <<"H", "e", "r", "b", "e", "r", "t">>,
        isbn |-> Isbn1, publication_year |-> MinPublicationYear - 1, genre |-> 1] >>

UserInputs ==
    << [id |-> "U123", name |-> "John Doe", role |-> 1,
        email |-> <<"j", "o", "h", "n", "@", "e", "x", ".", "c", "o", "m">>],
       [id |-> "U456", name |-> "Jane Smith", role |-> 2,
        email |-> <<"j", "a", "n", "e", "@", "e", "x", ".", "c", "o", "m">>],
       [id |-> "U789", name |-> "Bad Mail", role |-> 5,
        email |-> <<"j", "o", "h", "n", "@">>] >>

(***************************************************************************)
(* `last`: the call the program made last (the method and its arguments)   *)
(* and how it ended: the exception it raised ("" when none) and the object *)
(* it returned (None when it returned True).                               *)
(***************************************************************************)
Returned(call, obj) == [call |-> call, exc |-> "", ret |-> obj]

Raise(call, e) == [call |-> call, exc |-> e, ret |-> None]

(***************************************************************************)
(* Book.                                                                   *)
(***************************************************************************)
\* b = Book(...): a new object, unless validation raises.
Book_new(i) ==
    LET d == BookInputs[i] IN
    IF Book_init_raises(d.isbn, d.publication_year)
    THEN /\ last' = Raise(<<"Book", i>>, "ValueError")
         /\ UNCHANGED <<book, user, library, file, now>>
    ELSE /\ Len(book) < MaxBookObjs
         /\ book' = Append(book, Book_init(d.title, d.author, d.isbn, d.publication_year, d.genre))
         /\ last' = Returned(<<"Book", i>>, Len(book) + 1)
         /\ UNCHANGED <<user, library, file, now>>

\* Mutant: borrow does not check that the book is available.
Book_borrow_raises_never(b) == FALSE

\* Mutant: borrow looks at the borrower instead of the available flag.
Book_borrow_raises_if_borrower(b) == book[b].borrowed_by # None

Book_borrow_raises(b) == ~book[b].available

\* Mutant: borrow does not record the borrower.
Book_borrow_result_no_borrower(bk, u) ==
    [bk EXCEPT !.available = FALSE, !.borrow_date = now]

Book_borrow_result(bk, u) ==
    [bk EXCEPT !.available = FALSE, !.borrow_date = now, !.borrowed_by = u]

\* Mutant: return_book forgets to clear borrow_date.
Book_return_book_result_keeps_date(bk) ==
    [bk EXCEPT !.available = TRUE, !.borrowed_by = None]

Book_return_book_result(bk) ==
    [bk EXCEPT !.available = TRUE, !.borrow_date = None, !.borrowed_by = None]

\* b.borrow(u), called by the program itself.
Book_borrow(b, u) ==
    IF Book_borrow_raises(b)
    THEN /\ last' = Raise(<<"Book.borrow", b, u>>, "ValueError")
         /\ UNCHANGED <<book, user, library, file, now>>
    ELSE /\ book' = [book EXCEPT ![b] = Book_borrow_result(@, u)]
         /\ last' = Returned(<<"Book.borrow", b, u>>, None)
         /\ UNCHANGED <<user, library, file, now>>

\* Mutant: return_book refuses a book that is already available.
Book_return_book_strict(b) ==
    IF book[b].available
    THEN /\ last' = Raise(<<"Book.return_book", b>>, "ValueError")
         /\ UNCHANGED <<book, user, library, file, now>>
    ELSE /\ book' = [book EXCEPT ![b] = Book_return_book_result(@)]
         /\ last' = Returned(<<"Book.return_book", b>>, None)
         /\ UNCHANGED <<user, library, file, now>>

\* b.return_book(), called by the program itself.
Book_return_book(b) ==
    /\ book' = [book EXCEPT ![b] = Book_return_book_result(@)]
    /\ last' = Returned(<<"Book.return_book", b>>, None)
    /\ UNCHANGED <<user, library, file, now>>

\* Mutant: to_json never adds the borrower's id and the borrow date.
Book_to_json_bare(bk) ==
    [title |-> bk.title, author |-> bk.author, isbn |-> bk.isbn,
     publication_year |-> bk.publication_year,
     genre |-> BookGenre_name(bk.genre), available |-> bk.available]

\* Mutant: to_json derives "available" from the borrower instead of the flag.
Book_to_json_available_from_borrower(bk) ==
    LET data == [title |-> bk.title, author |-> bk.author, isbn |-> bk.isbn,
                 publication_year |-> bk.publication_year,
                 genre |-> BookGenre_name(bk.genre),
                 available |-> bk.borrowed_by = None]
    IN IF ~bk.available /\ bk.borrowed_by # None
       THEN data @@ [borrowed_by |-> user[bk.borrowed_by].id,
                     borrow_date |-> isoformat(bk.borrow_date)]
       ELSE data

\* The parsed form of b.to_json(): json.loads(json.dumps(data)) gives back
\* the same texts, numbers and booleans.
Book_to_json(bk) ==
    LET data == [title |-> bk.title, author |-> bk.author, isbn |-> bk.isbn,
                 publication_year |-> bk.publication_year,
                 genre |-> BookGenre_name(bk.genre), available |-> bk.available]
    IN IF ~bk.available /\ bk.borrowed_by # None
       THEN data @@ [borrowed_by |-> user[bk.borrowed_by].id,
                     borrow_date |-> isoformat(bk.borrow_date)]
       ELSE data

\* The object Book.from_json builds, once the constructor has accepted it.
Book_from_json_result(data) ==
    [Book_init(data.title, data.author, data.isbn, data.publication_year,
               BookGenre_getitem(data.genre))
     EXCEPT !.available = data.available]

\* Book.from_json(b.to_json())
Book_from_json(b) ==
    LET data == Book_to_json(book[b]) IN
    IF Book_init_raises(data.isbn, data.publication_year)
    THEN /\ last' = Raise(<<"Book.from_json", b>>, "ValueError")
         /\ UNCHANGED <<book, user, library, file, now>>
    ELSE /\ Len(book) < MaxBookObjs
         /\ book' = Append(book, Book_from_json_result(data))
         /\ last' = Returned(<<"Book.from_json", b>>, Len(book) + 1)
         /\ UNCHANGED <<user, library, file, now>>

(***************************************************************************)
(* User.                                                                   *)
(***************************************************************************)
User_new(i) ==
    LET d == UserInputs[i] IN
    IF User_init_raises(d.email)
    THEN /\ last' = Raise(<<"User", i>>, "ValueError")
         /\ UNCHANGED <<book, user, library, file, now>>
    ELSE /\ Len(user) < MaxUserObjs
         /\ user' = Append(user, User_init(d.id, d.name, d.email, d.role))
         /\ last' = Returned(<<"User", i>>, Len(user) + 1)
         /\ UNCHANGED <<book, library, file, now>>

\* Mutant: borrow_book does not look at the active flag.
User_borrow_book_raises_if_listed(u, b) == b \in Range(user[u].borrowed_books)

\* The two checks of borrow_book itself, before it calls book.borrow.
User_borrow_book_raises(u, b) ==
    \/ ~user[u].active
    \/ b \in Range(user[u].borrowed_books)

\* Mutant: borrow_book appends the book before it calls book.borrow.
User_borrow_book_appends_first(u, b) ==
    IF User_borrow_book_raises(u, b)
    THEN /\ last' = Raise(<<"User.borrow_book", u, b>>, "ValueError")
         /\ UNCHANGED <<book, user, library, file, now>>
    ELSE /\ user' = [user EXCEPT ![u].borrowed_books = Append(@, b)]
         /\ IF Book_borrow_raises(b)
            THEN /\ last' = Raise(<<"User.borrow_book", u, b>>, "ValueError")
                 /\ UNCHANGED book
            ELSE /\ last' = Returned(<<"User.borrow_book", u, b>>, None)
                 /\ book' = [book EXCEPT ![b] = Book_borrow_result(@, u)]
         /\ UNCHANGED <<library, file, now>>

\* Mutant: borrow_book puts the book at the front of borrowed_books.
User_borrow_book_prepends(u, b) ==
    IF User_borrow_book_raises(u, b) \/ Book_borrow_raises(b)
    THEN /\ last' = Raise(<<"User.borrow_book", u, b>>, "ValueError")
         /\ UNCHANGED <<book, user, library, file, now>>
    ELSE /\ book' = [book EXCEPT ![b] = Book_borrow_result(@, u)]
         /\ user' = [user EXCEPT ![u].borrowed_books = <<b>> \o @]
         /\ last' = Returned(<<"User.borrow_book", u, b>>, None)
         /\ UNCHANGED <<library, file, now>>

User_borrow_book(u, b) ==
    IF User_borrow_book_raises(u, b) \/ Book_borrow_raises(b)
    THEN /\ last' = Raise(<<"User.borrow_book", u, b>>, "ValueError")
         /\ UNCHANGED <<book, user, library, file, now>>
    ELSE /\ book' = [book EXCEPT ![b] = Book_borrow_result(@, u)]
         /\ user' = [user EXCEPT ![u].borrowed_books = Append(@, b)]
         /\ last' = Returned(<<"User.borrow_book", u, b>>, None)
         /\ UNCHANGED <<library, file, now>>

\* Mutant: return_book raises only when no user at all lists the book.
User_return_book_raises_if_unheld(u, b) ==
    \A v \in DOMAIN user : b \notin Range(user[v].borrowed_books)

User_return_book_raises(u, b) == b \notin Range(user[u].borrowed_books)

\* Mutant: return_book forgets to remove the book from borrowed_books.
User_return_book_keeps_list(u, b) ==
    IF User_return_book_raises(u, b)
    THEN /\ last' = Raise(<<"User.return_book", u, b>>, "ValueError")
         /\ UNCHANGED <<book, user, library, file, now>>
    ELSE /\ book' = [book EXCEPT ![b] = Book_return_book_result(@)]
         /\ last' = Returned(<<"User.return_book", u, b>>, None)
         /\ UNCHANGED <<user, library, file, now>>

User_return_book(u, b) ==
    IF User_return_book_raises(u, b)
    THEN /\ last' = Raise(<<"User.return_book", u, b>>, "ValueError")
         /\ UNCHANGED <<book, user, library, file, now>>
    ELSE /\ book' = [book EXCEPT ![b] = Book_return_book_result(@)]
         /\ user' = [user EXCEPT ![u].borrowed_books = list_remove(@, b)]
         /\ last' = Returned(<<"User.return_book", u, b>>, None)
         /\ UNCHANGED <<library, file, now>>

\* Mutant: deactivate does not look at borrowed_books.
User_deactivate_raises_never(u) == FALSE

User_deactivate_raises(u) == user[u].borrowed_books # <<>>

\* Mutant: deactivate sets the flag without the check.
User_deactivate_unchecked(u) ==
    /\ user' = [user EXCEPT ![u].active = FALSE]
    /\ last' = Returned(<<"User.deactivate", u>>, None)
    /\ UNCHANGED <<book, library, file, now>>

User_deactivate(u) ==
    IF User_deactivate_raises(u)
    THEN /\ last' = Raise(<<"User.deactivate", u>>, "ValueError")
         /\ UNCHANGED <<book, user, library, file, now>>
    ELSE /\ user' = [user EXCEPT ![u].active = FALSE]
         /\ last' = Returned(<<"User.deactivate", u>>, None)
         /\ UNCHANGED <<book, library, file, now>>

User_activate(u) ==
    /\ user' = [user EXCEPT ![u].active = TRUE]
    /\ last' = Returned(<<"User.activate", u>>, None)
    /\ UNCHANGED <<book, library, file, now>>

User_to_json(us) ==
    [id |-> us.id, name |-> us.name, email |-> us.email, role |-> UserRole_name(us.role),
     registration_date |-> isoformat(us.registration_date), active |-> us.active,
     borrowed_books_count |-> Len(us.borrowed_books)]

User_from_json_result(data) ==
    [User_init(data.id, data.name, data.email, UserRole_getitem(data.role))
     EXCEPT !.active = data.active]

\* User.from_json(u.to_json())
User_from_json(u) ==
    LET data == User_to_json(user[u]) IN
    IF User_init_raises(data.email)
    THEN /\ last' = Raise(<<"User.from_json", u>>, "ValueError")
         /\ UNCHANGED <<book, user, library, file, now>>
    ELSE /\ Len(user) < MaxUserObjs
         /\ user' = Append(user, User_from_json_result(data))
         /\ last' = Returned(<<"User.from_json", u>>, Len(user) + 1)
         /\ UNCHANGED <<book, library, file, now>>

(***************************************************************************)
(* Library.                                                                *)
(***************************************************************************)
\* Mutant: add_book does not check for a duplicate ISBN.
Library_add_book_raises_never(l, b) == FALSE

Library_add_book_raises(l, b) == book[b].isbn \in dict_keys(library[l].books)

Library_add_book(l, b) ==
    IF Library_add_book_raises(l, b)
    THEN /\ last' = Raise(<<"Library.add_book", l, b>>, "ValueError")
         /\ UNCHANGED <<book, user, library, file, now>>
    ELSE /\ library' = [library EXCEPT ![l].books = dict_set(@, book[b].isbn, b)]
         /\ last' = Returned(<<"Library.add_book", l, b>>, None)
         /\ UNCHANGED <<book, user, file, now>>

\* Mutant: remove_book does not check that the book is available.
Library_remove_book_raises_if_absent(l, isbn) ==
    isbn \notin dict_keys(library[l].books)

Library_remove_book_raises(l, isbn) ==
    \/ isbn \notin dict_keys(library[l].books)
    \/ ~book[dict_value(library[l].books, isbn)].available

Library_remove_book(l, isbn) ==
    IF Library_remove_book_raises(l, isbn)
    THEN /\ last' = Raise(<<"Library.remove_book", l, isbn>>, "ValueError")
         /\ UNCHANGED <<book, user, library, file, now>>
    ELSE /\ library' = [library EXCEPT ![l].books = dict_pop(@, isbn)]
         /\ last' = Returned(<<"Library.remove_book", l, isbn>>, dict_value(library[l].books, isbn))
         /\ UNCHANGED <<book, user, file, now>>

Library_register_user_raises(l, u) == user[u].id \in dict_keys(library[l].users)

\* Mutant: register_user files the user under its name.
Library_register_user_by_name(l, u) ==
    IF Library_register_user_raises(l, u)
    THEN /\ last' = Raise(<<"Library.register_user", l, u>>, "ValueError")
         /\ UNCHANGED <<book, user, library, file, now>>
    ELSE /\ library' = [library EXCEPT ![l].users = dict_set(@, user[u].name, u)]
         /\ last' = Returned(<<"Library.register_user", l, u>>, None)
         /\ UNCHANGED <<book, user, file, now>>

Library_register_user(l, u) ==
    IF Library_register_user_raises(l, u)
    THEN /\ last' = Raise(<<"Library.register_user", l, u>>, "ValueError")
         /\ UNCHANGED <<book, user, library, file, now>>
    ELSE /\ library' = [library EXCEPT ![l].users = dict_set(@, user[u].id, u)]
         /\ last' = Returned(<<"Library.register_user", l, u>>, None)
         /\ UNCHANGED <<book, user, file, now>>

\* The document save_to_file writes: each entry is the parsed to_json of the
\* object, under the key it has in the registry.
Library_save_data(lib) ==
    [name |-> lib.name, location |-> lib.location,
     creation_date |-> isoformat(lib.creation_date),
     books |-> [i \in DOMAIN lib.books |->
                  [k |-> lib.books[i].k, v |-> Book_to_json(book[lib.books[i].v])]],
     users |-> [i \in DOMAIN lib.users |->
                  [k |-> lib.users[i].k, v |-> User_to_json(user[lib.users[i].v])]]]

\* Mutant: the books comprehension pops the entries it serialises.
Library_save_to_file_drains(l) ==
    /\ file' = <<Library_save_data(library[l])>>
    /\ library' = [library EXCEPT ![l].books = <<>>]
    /\ last' = Returned(<<"Library.save_to_file", l>>, None)
    /\ UNCHANGED <<book, user, now>>

\* There is one path; `file` is <<>> while nothing is stored under it.
Library_save_to_file(l) ==
    /\ file' = <<Library_save_data(library[l])>>
    /\ last' = Returned(<<"Library.save_to_file", l>>, None)
    /\ UNCHANGED <<book, user, library, now>>

\* Mutant: the loop does not copy the entry's available flag to the book.
RECURSIVE Library_load_books_all_available(_, _, _)
Library_load_books_all_available(items, heap, d) ==
    IF items = <<>> THEN [heap |-> heap, d |-> d, exc |-> ""]
    ELSE LET book_data == Head(items).v IN
         IF Book_init_raises(book_data.isbn, book_data.publication_year)
         THEN [heap |-> heap, d |-> d, exc |-> "ValueError"]
         ELSE LET bk == Book_init(book_data.title, book_data.author, book_data.isbn,
                                  book_data.publication_year,
                                  BookGenre_getitem(book_data.genre))
              IN Library_load_books_all_available(Tail(items), Append(heap, bk),
                                    dict_set(d, Head(items).k, Len(heap) + 1))

\* The loop over data["books"].items(): builds each book on the heap and
\* puts it in the registry under the entry's key; stops where Book(...) raises.
RECURSIVE Library_load_books(_, _, _)
Library_load_books(items, heap, d) ==
    IF items = <<>> THEN [heap |-> heap, d |-> d, exc |-> ""]
    ELSE LET book_data == Head(items).v IN
         IF Book_init_raises(book_data.isbn, book_data.publication_year)
         THEN [heap |-> heap, d |-> d, exc |-> "ValueError"]
         ELSE LET bk == [Book_init(book_data.title, book_data.author, book_data.isbn,
                                   book_data.publication_year,
                                   BookGenre_getitem(book_data.genre))
                         EXCEPT !.available = book_data.available]
              IN Library_load_books(Tail(items), Append(heap, bk),
                                    dict_set(d, Head(items).k, Len(heap) + 1))

\* Mutant: the loop does not copy the entry's active flag to the user.
RECURSIVE Library_load_users_all_active(_, _, _)
Library_load_users_all_active(items, heap, d) ==
    IF items = <<>> THEN [heap |-> heap, d |-> d, exc |-> ""]
    ELSE LET user_data == Head(items).v IN
         IF User_init_raises(user_data.email)
         THEN [heap |-> heap, d |-> d, exc |-> "ValueError"]
         ELSE LET us == User_init(user_data.id, user_data.name, user_data.email,
                                  UserRole_getitem(user_data.role))
              IN Library_load_users_all_active(Tail(items), Append(heap, us),
                                    dict_set(d, Head(items).k, Len(heap) + 1))

\* The loop over data["users"].items().
RECURSIVE Library_load_users(_, _, _)
Library_load_users(items, heap, d) ==
    IF items = <<>> THEN [heap |-> heap, d |-> d, exc |-> ""]
    ELSE LET user_data == Head(items).v IN
         IF User_init_raises(user_data.email)
         THEN [heap |-> heap, d |-> d, exc |-> "ValueError"]
         ELSE LET us == [User_init(user_data.id, user_data.name, user_data.email,
                                   UserRole_getitem(user_data.role))
                         EXCEPT !.active = user_data.active]
              IN Library_load_users(Tail(items), Append(heap, us),
                                    dict_set(d, Head(items).k, Len(heap) + 1))

\* Library.load_from_file(path).  A load that raises returns nothing: what
\* it had built is unreachable garbage, and the heap is left as it was.
Library_load_from_file ==
    IF file = <<>>
    THEN /\ last' = Raise(<<"Library.load_from_file">>, "FileNotFoundError")
         /\ UNCHANGED <<book, user, library, file, now>>
    ELSE LET data == file[1]
             bs == Library_load_books(data.books, book, <<>>)
             us == Library_load_users(data.users, user, <<>>)
         IN IF bs.exc # "" \/ us.exc # ""
            THEN /\ last' = Raise(<<"Library.load_from_file">>, "ValueError")
                 /\ UNCHANGED <<book, user, library, file, now>>
            ELSE /\ Len(library) < MaxLibObjs
                 /\ Len(bs.heap) <= MaxBookObjs
                 /\ Len(us.heap) <= MaxUserObjs
                 /\ book' = bs.heap
                 /\ user' = us.heap
                 /\ library' = Append(library,
                        [Library_init(data.name, data.location)
                         EXCEPT !.books = bs.d, !.users = us.d])
                 /\ last' = Returned(<<"Library.load_from_file">>, Len(library) + 1)
                 /\ UNCHANGED <<file, now>>

(***************************************************************************)
(* The clock moves on between calls.                                       *)
(***************************************************************************)
Tick ==
    /\ now < MaxClock
    /\ now' = now + 1
    /\ UNCHANGED <<book, user, library, file, last>>

(***************************************************************************)
(* A run is at most MaxSteps steps long.                                   *)
(***************************************************************************)
Step(A) == steps < MaxSteps /\ steps' = steps + 1 /\ A

(***************************************************************************)
(* The program: one library has been constructed; the callers construct    *)
(* books and users and call the methods in any order.                      *)
(***************************************************************************)
Init ==
    /\ now = 0
    /\ book = <<>>
    /\ user = <<>>
    /\ library = <<[name |-> "Central Library", location |-> "City Center", books |-> <<>>,
                    users |-> <<>>, creation_date |-> 0]>>
    /\ file = <<>>
    /\ last = Returned(<<"Library", 1>>, 1)
    /\ steps = 0

Next ==
    \/ \E i \in DOMAIN BookInputs : Step(Book_new(i))
    \/ \E i \in DOMAIN UserInputs : Step(User_new(i))
    \/ \E b \in DOMAIN book, u \in DOMAIN user : Step(Book_borrow(b, u))
    \/ \E b \in DOMAIN book : Step(Book_return_book(b))
    \/ \E b \in DOMAIN book : Step(Book_from_json(b))
    \/ \E u \in DOMAIN user, b \in DOMAIN book : Step(User_borrow_book(u, b))
    \/ \E u \in DOMAIN user, b \in DOMAIN book : Step(User_return_book(u, b))
    \/ \E u \in DOMAIN user : Step(User_deactivate(u))
    \/ \E u \in DOMAIN user : Step(User_activate(u))
    \/ \E u \in DOMAIN user : Step(User_from_json(u))
    \/ \E l \in DOMAIN library, b \in DOMAIN book : Step(Library_add_book(l, b))
    \/ \E l \in DOMAIN library, isbn \in {Isbn1, Isbn2} : Step(Library_remove_book(l, isbn))
    \/ \E l \in DOMAIN library, u \in DOMAIN user : Step(Library_register_user(l, u))
    \/ \E l \in DOMAIN library : Step(Library_save_to_file(l))
    \/ Step(Library_load_from_file)
    \/ Step(Tick)

Spec == Init /\ [][Next]_vars

(***************************************************************************)
(* Book construction on its own: the callers pass any isbn text and any    *)
(* year to Book(...), while the clock moves.  The isbn texts are those of  *)
(* the tests (too short, letters among the digits), one too long, the      *)
(* empty one, and two whose last character is a digit outside ASCII; the   *)
(* years lie around 1450 and around the current year.                      *)
(***************************************************************************)
MaxNewBooks == 1

IsbnLong == Isbn1 \o <<"0">>

IsbnLetters == <<"1", "2", "3", "a", "b", "c", "4", "5", "6", "7", "8", "9", "0">>

IsbnSuperscript == <<"9", "7", "8", "0", "2", "6", "1", "1", "0", "3", "3", "4", "SUPERSCRIPT TWO">>

IsbnArabicIndic == <<"9", "7", "8", "0", "2", "6", "1", "1", "0", "3", "3", "4", "ARABIC-INDIC DIGIT ONE">>

IsbnInputs ==
    {Isbn1, IsbnShort, IsbnLong, IsbnLetters, IsbnSuperscript, IsbnArabicIndic, <<>>}

YearInputs ==
    {MinPublicationYear - 1, MinPublicationYear} \cup (BaseYear .. BaseYear + MaxClock + 1)

\* Book("Dune", "Herbert", isbn, publication_year): genre is the default, OTHER.
Book_new_of(isbn, publication_year) ==
    IF Book_init_raises(isbn, publication_year)
    THEN /\ last' = Raise(<<"Book", isbn, publication_year>>, "ValueError")
         /\ UNCHANGED <<book, user, library, file, now>>
    ELSE /\ Len(book) < MaxNewBooks
         /\ book' = Append(book, Book_init(<<"D", "u", "n", "e">>,
                                           <<"H", "e", "r", "b", "e", "r", "t">>,
                                           isbn, publication_year, 6))
         /\ last' = Returned(<<"Book", isbn, publication_year>>, Len(book) + 1)
         /\ UNCHANGED <<user, library, file, now>>

BookNext ==
    \/ \E isbn \in IsbnInputs, publication_year \in YearInputs :
          Step(Book_new_of(isbn, publication_year))
    \/ Step(Tick)

BookSpec == Init /\ [][BookNext]_vars

(***************************************************************************)
(* Searching a registry: the callers construct books, add and remove them, *)
(* save and load the library, and search it by author and by title.        *)
(***************************************************************************)
SearchInputs ==
    { <<"d", "U", "n">>, <<"I", "i">>, <<"E", "R">>, <<"r">>, <<"x">>, <<>>,
      <<"D", "U", "N", "E", " ", "I", "I">> }

\* [book for book in self.books.values() if author.lower() in book.author.lower()]
Library_find_books_by_author_result(lib, author) ==
    SelectSeq([i \in DOMAIN lib.books |-> lib.books[i].v],
              LAMBDA b : str_contains(str_lower(author), str_lower(book[b].author)))

Library_find_books_by_author(l, author) ==
    /\ last' = Returned(<<"Library.find_books_by_author", l, author>>,
                        Library_find_books_by_author_result(library[l], author))
    /\ UNCHANGED <<book, user, library, file, now>>

\* [book for book in self.books.values() if title.lower() in book.title.lower()]
Library_find_books_by_title_result(lib, title) ==
    SelectSeq([i \in DOMAIN lib.books |-> lib.books[i].v],
              LAMBDA b : str_contains(str_lower(title), str_lower(book[b].title)))

Library_find_books_by_title(l, title) ==
    /\ last' = Returned(<<"Library.find_books_by_title", l, title>>,
                        Library_find_books_by_title_result(library[l], title))
    /\ UNCHANGED <<book, user, library, file, now>>

SearchNext ==
    \/ \E i \in DOMAIN BookInputs : Step(Book_new(i))
    \/ \E l \in DOMAIN library, b \in DOMAIN book : Step(Library_add_book(l, b))
    \/ \E l \in DOMAIN library, isbn \in {Isbn1, Isbn2} : Step(Library_remove_book(l, isbn))
    \/ \E l \in DOMAIN library : Step(Library_save_to_file(l))
    \/ Step(Library_load_from_file)
    \/ \E l \in DOMAIN library, s \in SearchInputs : Step(Library_find_books_by_author(l, s))
    \/ \E l \in DOMAIN library, s \in SearchInputs : Step(Library_find_books_by_title(l, s))

SearchSpec == Init /\ [][SearchNext]_vars

(***************************************************************************)
(* Loading a file the program finds on disk: a document with at most       *)
(* MaxEntries book entries and as many user entries, written by an earlier *)
(* run or edited by hand, so that an entry may be one the constructors     *)
(* refuse.  The callers load the file and pass single entries to           *)
(* Book.from_json and User.from_json, while the clock moves.               *)
(***************************************************************************)
MaxEntries == 2

\* Book entries: an available book; a book on loan; one with a short isbn;
\* one of next year, which Book(...) refuses until the clock has moved on.
BookEntries ==
    << [title |-> <<"D", "u", "n", "e">>, author |-> <<"H", "e", "r", "b", "e", "r", "t">>,
       isbn |-> Isbn1, publication_year |-> MinPublicationYear + 515,
       genre |-> "FANTASY", available |-> TRUE],
      [title |-> <<"d", "u", "n", "e", " ", "I", "I">>, author |-> <<"B", "r", "i", "a", "n">>,
       isbn |-> Isbn2, publication_year |-> BaseYear, genre |-> "SCIENCE",
       available |-> FALSE, borrowed_by |-> "U123", borrow_date |-> isoformat(0)],
      [title |-> <<"D", "u", "n", "e">>, author |-> <<"H", "e", "r", "b", "e", "r", "t">>,
       isbn |-> IsbnShort, publication_year |-> MinPublicationYear + 515,
       genre |-> "FANTASY", available |-> TRUE],
      [title |-> <<"D", "u", "n", "e">>, author |-> <<"H", "e", "r", "b", "e", "r", "t">>,
       isbn |-> Isbn1, publication_year |-> BaseYear + 1,
       genre |-> "OTHER", available |-> TRUE] >>

\* User entries: an active user who holds a book; an inactive one; one with
\* an email the pattern refuses.
UserEntries ==
    << [id |-> "U123", name |-> "John Doe", role |-> "STUDENT",
       email |-> <<"j", "o", "h", "n", "@", "e", "x", ".", "c", "o", "m">>,
       registration_date |-> isoformat(0), active |-> TRUE, borrowed_books_count |-> 1],
      [id |-> "U456", name |-> "Jane Smith", role |-> "TEACHER",
       email |-> <<"j", "a", "n", "e", "@", "e", "x", ".", "c", "o", "m">>,
       registration_date |-> isoformat(0), active |-> FALSE, borrowed_books_count |-> 0],
      [id |-> "U789", name |-> "Bad Mail", role |-> "GUEST",
       email |-> <<"j", "o", "h", "n", "@">>,
       registration_date |-> isoformat(0), active |-> TRUE, borrowed_books_count |-> 0] >>

\* The ways to pick at most MaxEntries of n entries, in their order.
Picks(n) ==
    {p \in UNION {[1 .. m -> 1 .. n] : m \in 0 .. MaxEntries} :
       \A i, j \in DOMAIN p : i < j => p[i] < p[j]}

\* The "books" / "users" object of a document: some of the entries, each
\* under its own isbn / id, no key twice.
BookItems ==
    {items \in {[i \in DOMAIN p |-> [k |-> BookEntries[p[i]].isbn, v |-> BookEntries[p[i]]]] :
                  p \in Picks(Len(BookEntries))} :
       \A i, j \in DOMAIN items : items[i].k = items[j].k => i = j}

UserItems ==
    {[i \in DOMAIN p |-> [k |-> UserEntries[p[i]].id, v |-> UserEntries[p[i]]]] :
       p \in Picks(Len(UserEntries))}

LoadInit ==
    /\ now = 0
    /\ book = <<>>
    /\ user = <<>>
    /\ library = <<>>
    /\ \E bs \in BookItems, us \in UserItems :
          file = <<[name |-> "Central Library", location |-> "City Center",
                    creation_date |-> isoformat(0), books |-> bs, users |-> us]>>
    /\ last = Returned(<<"open">>, None)
    /\ steps = 0

\* Book.from_json raises where Book(...) does.
Book_from_json_raises(data) == Book_init_raises(data.isbn, data.publication_year)

\* Book.from_json(json.dumps(entry)) for the i-th book entry of the file.
Book_from_json_entry(i) ==
    LET data == file[1].books[i].v IN
    IF Book_from_json_raises(data)
    THEN /\ last' = Raise(<<"Book.from_json", "books", i>>, "ValueError")
         /\ UNCHANGED <<book, user, library, file, now>>
    ELSE /\ Len(book) < MaxBookObjs
         /\ book' = Append(book, Book_from_json_result(data))
         /\ last' = Returned(<<"Book.from_json", "books", i>>, Len(book) + 1)
         /\ UNCHANGED <<user, library, file, now>>

\* User.from_json raises where User(...) does.
User_from_json_raises(data) == User_init_raises(data.email)

\* User.from_json(json.dumps(entry)) for the i-th user entry of the file.
User_from_json_entry(i) ==
    LET data == file[1].users[i].v IN
    IF User_from_json_raises(data)
    THEN /\ last' = Raise(<<"User.from_json", "users", i>>, "ValueError")
         /\ UNCHANGED <<book, user, library, file, now>>
    ELSE /\ Len(user) < MaxUserObjs
         /\ user' = Append(user, User_from_json_result(data))
         /\ last' = Returned(<<"User.from_json", "users", i>>, Len(user) + 1)
         /\ UNCHANGED <<book, library, file, now>>

LoadNext ==
    \/ Step(Library_load_from_file)
    \/ \E i \in DOMAIN file[1].books : Step(Book_from_json_entry(i))
    \/ \E i \in DOMAIN file[1].users : Step(User_from_json_entry(i))
    \/ Step(Tick)

LoadSpec == LoadInit /\ [][LoadNext]_vars

(***************************************************************************)
(* The routed program: the callers construct books and users, register     *)
(* them, and borrow and return through the User methods only; nothing is   *)
(* rebuilt from JSON or from a file.                                       *)
(***************************************************************************)
RoutedNext ==
    \/ \E i \in DOMAIN BookInputs : Step(Book_new(i))
    \/ \E i \in DOMAIN UserInputs : Step(User_new(i))
    \/ \E u \in DOMAIN user, b \in DOMAIN book : Step(User_borrow_book(u, b))
    \/ \E u \in DOMAIN user, b \in DOMAIN book : Step(User_return_book(u, b))
    \/ \E u \in DOMAIN user : Step(User_deactivate(u))
    \/ \E u \in DOMAIN user : Step(User_activate(u))
    \/ \E l \in DOMAIN library, b \in DOMAIN book : Step(Library_add_book(l, b))
    \/ \E l \in DOMAIN library, isbn \in {Isbn1, Isbn2} : Step(Library_remove_book(l, isbn))
    \/ \E l \in DOMAIN library, u \in DOMAIN user : Step(Library_register_user(l, u))
    \/ \E l \in DOMAIN library : Step(Library_save_to_file(l))
    \/ Step(Tick)

RoutedSpec == Init /\ [][RoutedNext]_vars

(***************************************************************************)
(* The program after a restart: it has loaded a file an earlier run saved  *)
(* (entries the constructors accept), so the heap holds the rebuilt books  *)
(* and users and the one library load_from_file returned.                  *)
(***************************************************************************)
ReloadInit ==
    /\ now = 0
    /\ steps = 0
    /\ last = Returned(<<"Library.load_from_file">>, 1)
    /\ \E bs \in BookItems, us \in UserItems :
          LET data == [name |-> "Central Library", location |-> "City Center",
                       creation_date |-> isoformat(0), books |-> bs, users |-> us]
              lb == Library_load_books(data.books, <<>>, <<>>)
              lu == Library_load_users(data.users, <<>>, <<>>)
          IN /\ lb.exc = ""
             /\ lu.exc = ""
             /\ file = <<data>>
             /\ book = lb.heap
             /\ user = lu.heap
             /\ library = <<[Library_init(data.name, data.location)
                             EXCEPT !.books = lb.d, !.users = lu.d]>>

(***************************************************************************)
(* After the restart the callers use the User and Library interface on the *)
(* reloaded and on newly constructed objects, and Book.return_book.        *)
(***************************************************************************)
\* Calls made after the restart in one behaviour.
MaxStuckSteps == 4

StuckStep(A) == steps < MaxStuckSteps /\ Step(A)

StuckNext ==
    \/ \E i \in DOMAIN BookInputs : StuckStep(Book_new(i))
    \/ \E i \in DOMAIN UserInputs : StuckStep(User_new(i))
    \/ \E u \in DOMAIN user, b \in DOMAIN book : StuckStep(User_borrow_book(u, b))
    \/ \E u \in DOMAIN user, b \in DOMAIN book : StuckStep(User_return_book(u, b))
    \/ \E u \in DOMAIN user : StuckStep(User_deactivate(u))
    \/ \E u \in DOMAIN user : StuckStep(User_activate(u))
    \/ \E l \in DOMAIN library, b \in DOMAIN book : StuckStep(Library_add_book(l, b))
    \/ \E l \in DOMAIN library, isbn \in {Isbn1, Isbn2} : StuckStep(Library_remove_book(l, isbn))
    \/ \E l \in DOMAIN library, u \in DOMAIN user : StuckStep(Library_register_user(l, u))
    \/ \E b \in DOMAIN book : StuckStep(Book_return_book(b))

StuckSpec == ReloadInit /\ [][StuckNext]_vars

(***************************************************************************)
(* After the restart the program only saves libraries and loads the file   *)
(* again, while the clock moves on.                                        *)
(***************************************************************************)
FixNext ==
    \/ \E l \in DOMAIN library : Step(Library_save_to_file(l))
    \/ Step(Library_load_from_file)
    \/ Step(Tick)

FixSpec == ReloadInit /\ [][FixNext]_vars

(***************************************************************************)
(* Notions the properties below are stated with.                           *)
(***************************************************************************)
Books == DOMAIN book

Users == DOMAIN user

Libraries == DOMAIN library

borrowed_books(u) == Range(user[u].borrowed_books)

\* The users whose borrowed_books list holds b.
Holders(b) == {u \in Users : b \in borrowed_books(u)}

\* u.borrow_book(b) has succeeded and b has not been returned since.
OnLoanTo(b, u) ==
    /\ b \in borrowed_books(u)
    /\ ~book[b].available
    /\ book[b].borrowed_by = u

\* The step is the call `call`, whatever its outcome (a call leaves the
\* clock alone; a tick of the clock leaves `last` alone).
Calling(call) == last'.call = call /\ steps' = steps + 1 /\ now' = now

LastCall(call) == last.call = call

(***************************************************************************)
(* C1.  As stated: after any sequence of the public operations, no book is *)
(* in the borrowed_books lists of two different users at the same time.    *)
(* Fails: u.borrow_book(b), then b.return_book() called directly, then     *)
(* v.borrow_book(b) leaves b in both lists.                                *)
(***************************************************************************)
C1_NoBookHeldByTwoUsers ==
    \A b \in Books : Cardinality(Holders(b)) <= 1

\* Every book in a borrowed_books list is unavailable.
HeldBooksUnavailable ==
    \A b \in Books : Holders(b) # {} => ~book[b].available

\* The step calls Book.return_book directly on a book some user still lists.
DirectReturnOfHeldBook ==
    \E b \in Books : Holders(b) # {} /\ Calling(<<"Book.return_book", b>>)

(***************************************************************************)
(* C1, amended.  As long as Book.return_book is not called directly on a   *)
(* book that is still in some user's borrowed_books, no book is in the     *)
(* lists of two different users: every other step of every public          *)
(* operation keeps "listed books are unavailable and no book is listed by  *)
(* two users", which holds of the state after construction.                *)
(***************************************************************************)
C1_NoBookHeldByTwoUsers_UnlessDirectReturn ==
    [][(HeldBooksUnavailable /\ C1_NoBookHeldByTwoUsers /\ ~DirectReturnOfHeldBook)
         => (HeldBooksUnavailable /\ C1_NoBookHeldByTwoUsers)']_vars

\* Two users hold books at the same time, the second having just borrowed.
C1_Witness ==
    \E u, v \in Users, b \in Books :
        /\ u # v
        /\ LastCall(<<"User.borrow_book", v, b>>)
        /\ last.exc = ""
        /\ Holders(b) = {v}
        /\ user[u].borrowed_books # <<>>

(***************************************************************************)
(* C2.  As stated: in every reachable state of every Book the three        *)
(* borrowing fields agree: available is true exactly when borrowed_by is   *)
(* None, and exactly when borrow_date is None.  Fails for a book rebuilt   *)
(* by Book.from_json or Library.load_from_file from a book on loan.        *)
(***************************************************************************)
FieldsAgree(bk) ==
    /\ bk.available <=> bk.borrowed_by = None
    /\ bk.available <=> bk.borrow_date = None

C2_BorrowFieldsAgree == \A b \in Books : FieldsAgree(book[b])

\* The one disagreement there is: unavailable, with no borrower and no date.
RebuiltOnLoan(bk) ==
    ~bk.available /\ bk.borrowed_by = None /\ bk.borrow_date = None

(***************************************************************************)
(* C2, amended.  In every reachable state of every Book, borrowed_by is    *)
(* None exactly when borrow_date is None, and an available book has both   *)
(* None.  The three fields agree on every book the constructor, borrow and *)
(* return_book produce; the only books on which they do not are those      *)
(* Book.from_json or Library.load_from_file builds from an unavailable     *)
(* book: unavailable, with borrowed_by and borrow_date None.               *)
(***************************************************************************)
C2_BorrowFieldsAgree_UnlessRebuilt ==
    /\ [](\A b \in Books : FieldsAgree(book[b]) \/ RebuiltOnLoan(book[b]))
    /\ [][\A b \in DOMAIN book' :
            ~FieldsAgree(book'[b]) =>
               \/ b \in Books /\ ~FieldsAgree(book[b])
               \/ /\ b \notin Books
                  /\ \/ \E c \in Books : Calling(<<"Book.from_json", c>>)
                     \/ Calling(<<"Library.load_from_file">>)]_vars

\* A book on loan has been saved and load_from_file has rebuilt it.
C2_Witness ==
    /\ LastCall(<<"Library.load_from_file">>)
    /\ last.exc = ""
    /\ \E i \in DOMAIN library[last.ret].books :
          RebuiltOnLoan(book[library[last.ret].books[i].v])
    /\ \E b \in Books : ~book[b].available /\ book[b].borrowed_by # None

(***************************************************************************)
(* C3.  Double-borrow rejection: while b is on loan to u, every            *)
(* borrow_book(b), by u itself or by any other user v, raises a validation *)
(* error; b stays unavailable with borrowed_by = u and no borrowed_books   *)
(* list changes.                                                           *)
(***************************************************************************)
C3_DoubleBorrowRejected ==
    [][\A u, v \in Users, b \in Books :
          (OnLoanTo(b, u) /\ Calling(<<"User.borrow_book", v, b>>))
            => /\ last'.exc = "ValueError"
               /\ book' = book
               /\ OnLoanTo(b, u)'
               /\ user' = user]_vars

\* An active user v has just been refused a book that is on loan to u.
C3_Witness ==
    \E u, v \in Users, b \in Books :
        /\ u # v
        /\ OnLoanTo(b, u)
        /\ user[v].active
        /\ LastCall(<<"User.borrow_book", v, b>>)
        /\ last.exc = "ValueError"

(***************************************************************************)
(* C4.  Borrow/return round trip: u.borrow_book(b) on an available book b  *)
(* by an active user u, followed by u.return_book(b), restores the state   *)
(* before the borrow.  The borrow starts from borrowed_by = None and       *)
(* borrow_date = None and only appends b to u.borrowed_books; the return   *)
(* that follows it succeeds, makes b available with both fields None       *)
(* again, takes exactly that last element off the list, and changes        *)
(* nothing else of b or u (u.active included).                             *)
(***************************************************************************)
Front(s) == SubSeq(s, 1, Len(s) - 1)

C5_DeactivationGate ==
    [][\A u \in Users :
          Calling(<<"User.deactivate", u>>)
            => IF user[u].borrowed_books # <<>>
               THEN last'.exc = "ValueError" /\ user' = user /\ user'[u].active
               ELSE last'.exc = "" /\ ~user'[u].active]_vars

\* A user holding a book has just been refused deactivation.
C5_Witness ==
    \E u \in Users :
        /\ LastCall(<<"User.deactivate", u>>)
        /\ last.exc = "ValueError"
        /\ user[u].borrowed_books # <<>>
        /\ user[u].active

(***************************************************************************)
(* C6.  No partial mutation on rejection: whenever User.borrow_book,       *)
(* User.return_book, User.deactivate, Book.borrow, Library.add_book,       *)
(* Library.remove_book or Library.register_user raises, every field of     *)
(* every book, user and library is what it was before the call.            *)
(***************************************************************************)
RejectingMethods ==
    {"User.borrow_book", "User.return_book", "User.deactivate", "Book.borrow",
     "Library.add_book", "Library.remove_book", "Library.register_user"}

C6_NoPartialMutation ==
    [][(steps' = steps + 1 /\ now' = now /\ last'.exc # ""
          /\ last'.call[1] \in RejectingMethods)
         => (book' = book /\ user' = user /\ library' = library /\ file' = file)]_vars

\* v has just been refused the return of a book that is on loan to u.
C6_Witness ==
    \E u, v \in Users, b \in Books :
        /\ u # v
        /\ OnLoanTo(b, u)
        /\ LastCall(<<"User.return_book", v, b>>)
        /\ last.exc = "ValueError"

(***************************************************************************)
(* C7.  Removal gate: remove_book(isbn) raises and keeps the registry as   *)
(* it is while the book is on loan or when isbn is not a key; on an        *)
(* available book it succeeds, returns that book, and the registry no      *)
(* longer contains isbn.  So a book leaves a registry only while it is     *)
(* available.                                                              *)
(***************************************************************************)
C7_RemovalGate ==
    [][\A l \in Libraries :
          /\ \A isbn \in {Isbn1, Isbn2} :
               Calling(<<"Library.remove_book", l, isbn>>)
                 => IF isbn \notin dict_keys(library[l].books)
                    THEN last'.exc = "ValueError" /\ library' = library
                    ELSE LET b == dict_value(library[l].books, isbn) IN
                         IF ~book[b].available
                         THEN last'.exc = "ValueError" /\ library' = library
                         ELSE /\ last'.exc = ""
                              /\ last'.ret = b
                              /\ isbn \notin dict_keys(library'[l].books)
                              /\ dict_keys(library'[l].books)
                                    = dict_keys(library[l].books) \ {isbn}
          /\ \A i \in DOMAIN library[l].books :
               library[l].books[i].k \notin dict_keys(library'[l].books)
                 => book[library[l].books[i].v].available]_vars

\* An available book has just been removed from a registry and returned.
C7_Witness ==
    \E l \in Libraries, isbn \in {Isbn1, Isbn2} :
        /\ LastCall(<<"Library.remove_book", l, isbn>>)
        /\ last.exc = ""
        /\ book[last.ret].isbn = isbn
        /\ book[last.ret].available
        /\ isbn \notin dict_keys(library[l].books)

(***************************************************************************)
(* C8.  Library uniqueness: add_book(book) raises when book.isbn is        *)
(* already a key and register_user(user) raises when user.id is already a  *)
(* key; the registry then still maps the key to the entry it had and its   *)
(* size is unchanged.  Otherwise the entry is inserted under its isbn/id.   *)
(***************************************************************************)
C8_LibraryUniqueness ==
    [][\A l \in Libraries :
          /\ \A b \in Books :
               Calling(<<"Library.add_book", l, b>>)
                 => IF book[b].isbn \in dict_keys(library[l].books)
                    THEN /\ last'.exc = "ValueError"
                         /\ library'[l].books = library[l].books
                    ELSE /\ last'.exc = ""
                         /\ library'[l].books
                              = Append(library[l].books, [k |-> book[b].isbn, v |-> b])
          /\ \A u \in Users :
               Calling(<<"Library.register_user", l, u>>)
                 => IF user[u].id \in dict_keys(library[l].users)
                    THEN /\ last'.exc = "ValueError"
                         /\ library'[l].users = library[l].users
                    ELSE /\ last'.exc = ""
                         /\ library'[l].users
                              = Append(library[l].users, [k |-> user[u].id, v |-> u])]_vars

\* A second book with a registered isbn has just been refused: the registry
\* still holds the first one.
C8_Witness ==
    \E l \in Libraries, b \in Books :
        /\ LastCall(<<"Library.add_book", l, b>>)
        /\ last.exc = "ValueError"
        /\ book[b].isbn \in dict_keys(library[l].books)
        /\ dict_value(library[l].books, book[b].isbn) # b

(***************************************************************************)
(* C9.  In every Library state reachable through the constructor,          *)
(* add_book, remove_book, register_user and load_from_file, every key of   *)
(* books is the isbn of the book it maps to and every key of users is the  *)
(* id of the user it maps to.                                              *)
(***************************************************************************)
C9_KeysMatchEntries ==
    \A l \in Libraries :
        /\ \A i \in DOMAIN library[l].books :
              library[l].books[i].k = book[library[l].books[i].v].isbn
        /\ \A i \in DOMAIN library[l].users :
              library[l].users[i].k = user[library[l].users[i].v].id

\* load_from_file has just rebuilt a library with a book and a user in it.
C9_Witness ==
    /\ LastCall(<<"Library.load_from_file">>)
    /\ last.exc = ""
    /\ library[last.ret].books # <<>>
    /\ library[last.ret].users # <<>>

(***************************************************************************)
(* C10.  Save/load round trip: load_from_file applied to the file that     *)
(* L.save_to_file writes yields a library with the same name and location, *)
(* the same ISBN keys and user-id keys, for every book the same title,     *)
(* author, isbn, publication_year, genre and available flag, and for every *)
(* user the same id, name, email, role and active flag; every reloaded     *)
(* user has an empty borrowed_books and every reloaded book has            *)
(* borrowed_by None, so a book on loan reloads unavailable with no holder. *)
(***************************************************************************)
Keys(d) == [i \in DOMAIN d |-> d[i].k]

\* What load_from_file builds from the file save_to_file writes for lib.
RoundTrip(lib) ==
    LET data == Library_save_data(lib)
        bs == Library_load_books(data.books, book, <<>>)
        us == Library_load_users(data.users, user, <<>>)
    IN /\ bs.exc = ""
       /\ us.exc = ""
       /\ Library_init(data.name, data.location).name = lib.name
       /\ Library_init(data.name, data.location).location = lib.location
       /\ Keys(bs.d) = Keys(lib.books)
       /\ Keys(us.d) = Keys(lib.users)
       /\ \A i \in DOMAIN lib.books :
            LET old == book[lib.books[i].v]
                new == bs.heap[bs.d[i].v]
            IN /\ bs.d[i].v \notin Books
               /\ new.title = old.title
               /\ new.author = old.author
               /\ new.isbn = old.isbn
               /\ new.publication_year = old.publication_year
               /\ new.genre = old.genre
               /\ new.available = old.available
               /\ new.borrowed_by = None
       /\ \A i \in DOMAIN lib.users :
            LET old == user[lib.users[i].v]
                new == us.heap[us.d[i].v]
            IN /\ us.d[i].v \notin Users
               /\ new.id = old.id
               /\ new.name = old.name
               /\ new.email = old.email
               /\ new.role = old.role
               /\ new.active = old.active
               /\ new.borrowed_books = <<>>

\* The library load_from_file returned is what the file describes.
LoadedAsFiled(lib, data) ==
    /\ lib.name = data.name
    /\ lib.location = data.location
    /\ Keys(lib.books) = Keys(data.books)
    /\ Keys(lib.users) = Keys(data.users)
    /\ \A i \in DOMAIN lib.books :
         LET new == book[lib.books[i].v]
             json == data.books[i].v
         IN /\ new.title = json.title
            /\ new.author = json.author
            /\ new.isbn = json.isbn
            /\ new.publication_year = json.publication_year
            /\ BookGenre_name(new.genre) = json.genre
            /\ new.available = json.available
            /\ new.borrowed_by = None
            /\ Holders(lib.books[i].v) = {}
    /\ \A i \in DOMAIN lib.users :
         LET new == user[lib.users[i].v]
             json == data.users[i].v
         IN /\ new.id = json.id
            /\ new.name = json.name
            /\ new.email = json.email
            /\ UserRole_name(new.role) = json.role
            /\ new.active = json.active
            /\ new.borrowed_books = <<>>

C10_SaveLoadRoundTrip ==
    /\ \A l \in Libraries : RoundTrip(library[l])
    /\ file # <<>> =>
          /\ Library_load_books(file[1].books, book, <<>>).exc = ""
          /\ Library_load_users(file[1].users, user, <<>>).exc = ""
    /\ (LastCall(<<"Library.load_from_file">>) /\ last.exc = "")
          => LoadedAsFiled(library[last.ret], file[1])
    /\ \A l \in Libraries :
          LastCall(<<"Library.save_to_file", l>>) => file = <<Library_save_data(library[l])>>

\* A library with a book on loan has been saved and loaded: the file entry
\* carries the borrower's id and the reloaded book is a new, unavailable object.
C10_Witness ==
    /\ LastCall(<<"Library.load_from_file">>)
    /\ last.exc = ""
    /\ \E i \in DOMAIN library[last.ret].books :
          /\ ~book[library[last.ret].books[i].v].available
          /\ "borrowed_by" \in DOMAIN file[1].books[i].v
          /\ \E l \in Libraries \ {last.ret} :
                library[last.ret].books[i].v \notin {library[l].books[j].v : j \in DOMAIN library[l].books}

(***************************************************************************)
(* C11.  As stated: Book.to_json includes borrowed_by (the borrower's id)  *)
(* and borrow_date whenever the book is unavailable, and omits both        *)
(* whenever it is available, for every book reachable through the          *)
(* constructor, borrow, return_book, from_json and load_from_file.  Fails  *)
(* for a book rebuilt from a book on loan: it is unavailable, has no       *)
(* borrower, and to_json omits both fields.                                *)
(***************************************************************************)
LoanFields == {"borrowed_by", "borrow_date"}

C11_ToJsonLoanFields ==
    \A b \in Books :
        IF book[b].available
        THEN DOMAIN Book_to_json(book[b]) \cap LoanFields = {}
        ELSE LoanFields \subseteq DOMAIN Book_to_json(book[b])

(***************************************************************************)
(* C11, amended.  Book.to_json includes borrowed_by (the borrower's id)    *)
(* and borrow_date (the ISO form of the borrow date) whenever the book is  *)
(* unavailable and has a borrower, and omits both otherwise: for every     *)
(* available book, and for the unavailable books without a borrower that   *)
(* from_json and load_from_file build from a book on loan.                 *)
(***************************************************************************)
C11_ToJsonLoanFields_WhenBorrowerKnown ==
    \A b \in Books :
        LET json == Book_to_json(book[b]) IN
        IF ~book[b].available /\ book[b].borrowed_by \in Users
        THEN /\ LoanFields \subseteq DOMAIN json
             /\ json.borrowed_by = user[book[b].borrowed_by].id
             /\ json.borrow_date = isoformat(book[b].borrow_date)
        ELSE /\ DOMAIN json \cap LoanFields = {}
             /\ book[b].available \/ RebuiltOnLoan(book[b])

\* A book on loan, whose to_json carries the loan, has been rebuilt by
\* from_json: the rebuilt book is unavailable and its to_json omits the loan.
C11_Witness ==
    \E b \in Books :
        /\ LastCall(<<"Book.from_json", b>>)
        /\ last.exc = ""
        /\ LoanFields \subseteq DOMAIN Book_to_json(book[b])
        /\ ~book[last.ret].available
        /\ DOMAIN Book_to_json(book[last.ret]) \cap LoanFields = {}

(***************************************************************************)
(* C12.  u.return_book(b) raises whenever b is not in u.borrowed_books,    *)
(* also when b is held by another user v, and then b's available,          *)
(* borrowed_by and borrow_date and every user's borrowed_books are         *)
(* unchanged; when b is in u.borrowed_books it makes b available and       *)
(* removes b from u.borrowed_books (and touches no other user or book).    *)
(***************************************************************************)
C12_ReturnGate ==
    [][\A u \in Users, b \in Books :
          Calling(<<"User.return_book", u, b>>)
            => IF b \notin borrowed_books(u)
               THEN /\ last'.exc = "ValueError"
                    /\ book' = book
                    /\ user' = user
               ELSE /\ last'.exc = ""
                    /\ book'[b].available
                    /\ \A c \in Books \ {b} : book'[c] = book[c]
                    /\ b \notin Range(user'[u].borrowed_books)
                    /\ user' = [user EXCEPT ![u].borrowed_books =
                                   SelectSeq(@, LAMBDA x : x # b)]]_vars

\* v, who holds nothing, has just been refused the return of a book that u
\* holds: the book still carries u's loan.
C12_Witness ==
    \E u, v \in Users, b \in Books :
        /\ u # v
        /\ LastCall(<<"User.return_book", v, b>>)
        /\ last.exc = "ValueError"
        /\ Holders(b) = {u}
        /\ user[v].borrowed_books = <<>>
        /\ ~book[b].available
        /\ book[b].borrowed_by = u
        /\ book[b].borrow_date # None

(***************************************************************************)
(* C13.  An inactive user cannot borrow: u.borrow_book(b) raises for every *)
(* book b while u.active is false, leaving b and u unchanged.  activate()  *)
(* always succeeds and sets active to true, whatever the state, and        *)
(* changes nothing else; a user that was inactive lists no book, and after *)
(* its activation borrow_book of an available book it does not list        *)
(* succeeds again.                                                         *)
(***************************************************************************)
C13_InactiveCannotBorrow ==
    [][\A u \in Users :
          /\ \A b \in Books :
               (Calling(<<"User.borrow_book", u, b>>) /\ ~user[u].active)
                 => /\ last'.exc = "ValueError"
                    /\ book' = book
                    /\ user' = user
          /\ Calling(<<"User.activate", u>>)
               => /\ last'.exc = ""
                  /\ user' = [user EXCEPT ![u].active = TRUE]
                  /\ book' = book
                  /\ ~user[u].active => user'[u].borrowed_books = <<>>
          /\ \A b \in Books :
               (LastCall(<<"User.activate", u>>) /\ Calling(<<"User.borrow_book", u, b>>)
                  /\ book[b].available /\ b \notin borrowed_books(u))
                 => /\ last'.exc = ""
                    /\ ~book'[b].available
                    /\ book'[b].borrowed_by = u
                    /\ user'[u].borrowed_books = Append(user[u].borrowed_books, b)]_vars

\* An inactive user has just been refused an available book.
C13_Witness ==
    \E u \in Users, b \in Books :
        /\ LastCall(<<"User.borrow_book", u, b>>)
        /\ last.exc = "ValueError"
        /\ ~user[u].active
        /\ book[b].available
        /\ Holders(b) = {}

(***************************************************************************)
(* C14.  In every reachable state, after any sequence of User.borrow_book, *)
(* User.return_book, Book.borrow and Book.return_book calls, each book     *)
(* appears at most once in a user's borrowed_books list, and the list      *)
(* holds the books in the order they were borrowed: a successful           *)
(* borrow_book(b) puts b, which was not in the list, at its end; a         *)
(* successful return_book(b) takes b out and keeps the order of the rest;  *)
(* nothing else changes a list, and a new user starts with none.           *)
(***************************************************************************)
NoDuplicates(s) == \A i, j \in DOMAIN s : s[i] = s[j] => i = j

C14_BorrowedBooksOrdered ==
    /\ [](\A u \in Users : NoDuplicates(user[u].borrowed_books))
    /\ [][/\ \A u \in DOMAIN user' \ Users : user'[u].borrowed_books = <<>>
          /\ \A u \in Users :
               \/ user'[u].borrowed_books = user[u].borrowed_books
               \/ \E b \in Books :
                    /\ Calling(<<"User.borrow_book", u, b>>)
                    /\ last'.exc = ""
                    /\ b \notin borrowed_books(u)
                    /\ user'[u].borrowed_books = Append(user[u].borrowed_books, b)
               \/ \E b \in Books :
                    /\ Calling(<<"User.return_book", u, b>>)
                    /\ last'.exc = ""
                    /\ user'[u].borrowed_books
                         = SelectSeq(user[u].borrowed_books, LAMBDA x : x # b)]_vars

\* A user has borrowed the second book and then the first: its list holds
\* them in that order.
C14_Witness ==
    \E u \in Users, b, c \in Books :
        /\ c < b
        /\ LastCall(<<"User.borrow_book", u, c>>)
        /\ last.exc = ""
        /\ user[u].borrowed_books = <<b, c>>

(***************************************************************************)
(* C15.  Book.return_book() is unconditional and idempotent: from any book *)
(* state it returns success and leaves available = true, borrow_date =     *)
(* None and borrowed_by = None; on an already-available book it raises     *)
(* nothing and changes nothing; and calling it twice gives the same state  *)
(* as calling it once.                                                     *)
(***************************************************************************)
C15_ReturnBookIdempotent ==
    /\ [](\A b \in Books :
            Book_return_book_result(Book_return_book_result(book[b]))
              = Book_return_book_result(book[b]))
    /\ [][\A b \in Books :
            Calling(<<"Book.return_book", b>>)
              => /\ last'.exc = ""
                 /\ book'[b].available
                 /\ book'[b].borrow_date = None
                 /\ book'[b].borrowed_by = None
                 /\ book' = [book EXCEPT ![b].available = TRUE, ![b].borrow_date = None,
                                                ![b].borrowed_by = None]
                 /\ book[b].available => book' = book
                 /\ LastCall(<<"Book.return_book", b>>) => book' = book
                 /\ UNCHANGED <<user, library, file>>]_vars

\* return_book has just been called on a book that was already available:
\* there is no user yet, so nobody can have borrowed it.
C15_Witness ==
    \E b \in Books :
        /\ LastCall(<<"Book.return_book", b>>)
        /\ last.exc = ""
        /\ Users = {}
        /\ book[b].available

(***************************************************************************)
(* C16.  As stated: for every isbn string (with a valid publication year), *)
(* constructing a Book succeeds if and only if the isbn has exactly 13     *)
(* characters and every character is one of the decimal digits 0-9;        *)
(* otherwise construction raises a validation error and no book is         *)
(* created.  Fails: str.isdigit() also accepts digits outside ASCII, so an *)
(* isbn of 12 digits and a superscript two is accepted.                    *)
(***************************************************************************)
ThirteenDecimalDigits(isbn) ==
    Len(isbn) = 13 /\ \A i \in DOMAIN isbn : isbn[i] \in AsciiDigits

C16_IsbnThirteenDecimalDigits ==
    [][\A isbn \in IsbnInputs, y \in YearInputs :
          (Calling(<<"Book", isbn, y>>) /\ MinPublicationYear <= y /\ y <= current_year)
            => IF ThirteenDecimalDigits(isbn)
               THEN /\ last'.exc = ""
                    /\ Len(book') = Len(book) + 1
                    /\ book'[last'.ret].isbn = isbn
               ELSE /\ last'.exc = "ValueError"
                    /\ book' = book]_vars

\* A book has just been constructed whose isbn has 13 characters, one of
\* them not among 0-9.
C16_Witness ==
    \E isbn \in IsbnInputs, y \in YearInputs :
        /\ LastCall(<<"Book", isbn, y>>)
        /\ last.exc = ""
        /\ ~ThirteenDecimalDigits(isbn)
        /\ book[last.ret].isbn = isbn

(***************************************************************************)
(* C17.  For every integer year y (with a valid isbn), constructing a Book *)
(* succeeds if and only if 1450 <= y <= current_year, both bounds          *)
(* included; a new book starts with available = true, borrow_date = None   *)
(* and borrowed_by = None.                                                 *)
(***************************************************************************)
C17_YearBounds ==
    [][\A isbn \in IsbnInputs, y \in YearInputs :
          (Calling(<<"Book", isbn, y>>) /\ ThirteenDecimalDigits(isbn))
            => IF 1450 <= y /\ y <= BaseYear + now
               THEN /\ last'.exc = ""
                    /\ last'.ret = Len(book) + 1
                    /\ book' = Append(book, book'[last'.ret])
                    /\ book'[last'.ret].isbn = isbn
                    /\ book'[last'.ret].publication_year = y
                    /\ book'[last'.ret].available
                    /\ book'[last'.ret].borrow_date = None
                    /\ book'[last'.ret].borrowed_by = None
               ELSE /\ last'.exc = "ValueError"
                    /\ book' = book]_vars

\* After the clock has moved on, a book of the year that is now current has
\* just been constructed: the year before, that year was refused.
C17_Witness ==
    \E isbn \in IsbnInputs :
        /\ now > 0
        /\ LastCall(<<"Book", isbn, BaseYear + now>>)
        /\ last.exc = ""
        /\ book[last.ret].publication_year = BaseYear + now
        /\ book[last.ret].available

(***************************************************************************)
(* C18.  find_books_by_author(s) and find_books_by_title(s) return exactly *)
(* the registered books whose author / title contains s as a substring     *)
(* when case is ignored, in the order the books were inserted into the     *)
(* registry; when nothing matches they return an empty list and never      *)
(* raise, and they leave the registry unchanged.                           *)
(***************************************************************************)
SameIgnoringCase(a, b) ==
    a = b \/ <<a, b>> \in LetterPairs \/ <<b, a>> \in LetterPairs

\* s occurs in text at some position, letter for letter up to case.
ContainsIgnoringCase(text, s) ==
    \E k \in 0 .. Len(text) - Len(s) :
       \A j \in 1 .. Len(s) : SameIgnoringCase(text[k + j], s[j])

\* The place of book b in the registry d.
Place(d, b) == CHOOSE i \in DOMAIN d : d[i].v = b

\* r lists exactly the books of registry d that are in `matching`, each
\* once, in the order of the registry.
IsSearchResult(r, d, matching) ==
    /\ NoDuplicates(r)
    /\ Range(r) = {d[i].v : i \in DOMAIN d} \cap matching
    /\ \A i, j \in DOMAIN r : i < j => Place(d, r[i]) < Place(d, r[j])

C18_SearchIgnoringCase ==
    [][\A l \in Libraries, s \in SearchInputs :
          /\ Calling(<<"Library.find_books_by_author", l, s>>)
               => /\ last'.exc = ""
                  /\ IsSearchResult(last'.ret, library[l].books,
                        {b \in Books : ContainsIgnoringCase(book[b].author, s)})
                  /\ UNCHANGED <<book, user, library, file>>
          /\ Calling(<<"Library.find_books_by_title", l, s>>)
               => /\ last'.exc = ""
                  /\ IsSearchResult(last'.ret, library[l].books,
                        {b \in Books : ContainsIgnoringCase(book[b].title, s)})
                  /\ UNCHANGED <<book, user, library, file>>]_vars

\* A search by title, with capitals where the titles have none, has just
\* returned the two registered books, the one inserted first coming first
\* although it was constructed second.
C18_Witness ==
    \E l \in Libraries, s \in SearchInputs :
        /\ LastCall(<<"Library.find_books_by_title", l, s>>)
        /\ last.ret = <<2, 1>>
        /\ \E j \in DOMAIN s : s[j] \in UpperLetters
        /\ \A b \in {1, 2} : ~str_contains(s, book[b].title)

(***************************************************************************)
(* C19.  Library.load_from_file follows the entities' own deserialize      *)
(* rules: for every serialized book and user entry it rebuilds an entity   *)
(* equal - on title, author, isbn, publication_year, genre, available,     *)
(* borrowed_by, borrow_date for books and on id, name, email, role,        *)
(* active, borrowed_books for users - to what Book.from_json /             *)
(* User.from_json builds from the same entry, and it fails on exactly the  *)
(* entries on which they fail: the load raises if and only if from_json    *)
(* raises on one of the file's entries.                                    *)
(***************************************************************************)
BookFields ==
    {"title", "author", "isbn", "publication_year", "genre", "available",
     "borrowed_by", "borrow_date"}

UserFields == {"id", "name", "email", "role", "active", "borrowed_books"}

EqualOn(fields, x, y) == \A f \in fields : x[f] = y[f]

C19_LoadFollowsFromJson ==
    [][/\ Calling(<<"Library.load_from_file">>)
            => LET data == file[1] IN
               /\ last'.exc # ""
                    <=> \/ \E i \in DOMAIN data.books : Book_from_json_raises(data.books[i].v)
                        \/ \E i \in DOMAIN data.users : User_from_json_raises(data.users[i].v)
               /\ last'.exc = ""
                    => LET lib == library'[last'.ret] IN
                       /\ Keys(lib.books) = Keys(data.books)
                       /\ Keys(lib.users) = Keys(data.users)
                       /\ \A i \in DOMAIN data.books :
                            EqualOn(BookFields, book'[lib.books[i].v],
                                    Book_from_json_result(data.books[i].v))
                       /\ \A i \in DOMAIN data.users :
                            EqualOn(UserFields, user'[lib.users[i].v],
                                    User_from_json_result(data.users[i].v))
       /\ \A i \in DOMAIN file[1].books :
            Calling(<<"Book.from_json", "books", i>>)
              => IF Book_init_raises(file[1].books[i].v.isbn, file[1].books[i].v.publication_year)
                 THEN last'.exc = "ValueError" /\ book' = book
                 ELSE last'.exc = "" /\ book'[last'.ret].available = file[1].books[i].v.available
       /\ \A i \in DOMAIN file[1].users :
            Calling(<<"User.from_json", "users", i>>)
              => IF User_init_raises(file[1].users[i].v.email)
                 THEN last'.exc = "ValueError" /\ user' = user
                 ELSE last'.exc = "" /\ user'[last'.ret].active = file[1].users[i].v.active]_vars

\* A file with a book on loan and an inactive user has just been loaded, and
\* there is another file entry from_json has been given on its own.
C19_Witness ==
    /\ LastCall(<<"Library.load_from_file">>)
    /\ last.exc = ""
    /\ \E i \in DOMAIN library[last.ret].books :
          /\ "borrowed_by" \in DOMAIN file[1].books[i].v
          /\ ~book[library[last.ret].books[i].v].available
          /\ book[library[last.ret].books[i].v].borrowed_by = None
    /\ \E i \in DOMAIN library[last.ret].users :
          /\ ~file[1].users[i].v.active
          /\ ~user[library[last.ret].users[i].v].active
    /\ Len(book) > Len(library[last.ret].books)

(***************************************************************************)
(* C20.  In every reachable state (constructor, borrow_book, return_book,  *)
(* activate, deactivate, from_json, load_from_file, and direct Book.borrow *)
(* and Book.return_book calls), a user whose active flag is false has an   *)
(* empty borrowed_books list.                                              *)
(***************************************************************************)
C20_InactiveHoldsNothing ==
    \A u \in Users : ~user[u].active => user[u].borrowed_books = <<>>

\* A direct Book.borrow call has just named an inactive user as the borrower
\* of a book: the user's list is still empty.
C20_Witness ==
    \E u \in Users, b \in Books :
        /\ ~user[u].active
        /\ LastCall(<<"Book.borrow", b, u>>)
        /\ last.exc = ""
        /\ book[b].borrowed_by = u
        /\ user[u].borrowed_books = <<>>

(***************************************************************************)
(* C21.  When all borrowing and returning goes through User.borrow_book    *)
(* and User.return_book on freshly constructed books and users (no direct  *)
(* Book.borrow / Book.return_book, no reload), the two sides of the        *)
(* association agree in every reachable state: book b is in                *)
(* u.borrowed_books if and only if b.borrowed_by is u, and b.available is  *)
(* false if and only if some user holds b.                                 *)
(***************************************************************************)
C21_RoutedAssociationAgrees ==
    \A b \in Books :
        /\ \A u \in Users : b \in borrowed_books(u) <=> book[b].borrowed_by = u
        /\ ~book[b].available <=> Holders(b) # {}

\* A user who borrowed two books has just returned one of them: the other
\* is still on loan to it, the returned one has no borrower.
C21_Witness ==
    \E u \in Users, b \in Books :
        /\ OnLoanTo(b, u)
        /\ Holders(b) = {u}
        /\ \E c \in Books \ {b} :
              /\ LastCall(<<"User.return_book", u, c>>)
              /\ last.exc = ""
              /\ book[c].available
              /\ book[c].borrowed_by = None
              /\ Holders(c) = {}

(***************************************************************************)
(* C22.  A book that load_from_file rebuilds with available = false is     *)
(* stuck under the User and Library interface: in the reloaded library no  *)
(* User.borrow_book, User.return_book, activate, deactivate, add_book,     *)
(* remove_book or register_user ever makes it available, puts it in a      *)
(* user's borrowed_books, or removes it from the registry; only a direct   *)
(* Book.return_book() call releases it, and that call does.                *)
(***************************************************************************)
\* b is as load_from_file rebuilt it from a book on loan, and nobody lists it.
Stuck(b) == RebuiltOnLoan(book[b]) /\ Holders(b) = {}

Registered(l, b) == \E i \in DOMAIN library[l].books : library[l].books[i].v = b

C22_RebuiltOnLoanIsStuck ==
    [][\A b \in Books :
          Stuck(b)
            => IF Calling(<<"Book.return_book", b>>)
               THEN last'.exc = "" /\ book'[b].available
               ELSE /\ Stuck(b)'
                    /\ \A l \in Libraries : Registered(l, b) => Registered(l, b)'
                    /\ \A u \in Users :
                         Calling(<<"User.borrow_book", u, b>>) => last'.exc = "ValueError"
                    /\ \A l \in Libraries :
                         (Registered(l, b) /\ Calling(<<"Library.remove_book", l, book[b].isbn>>))
                           => last'.exc = "ValueError"]_vars

\* An active reloaded user has just been refused a book of the reloaded
\* library that was saved while on loan to it.
C22_Witness ==
    \E u \in Users, b \in Books :
        /\ LastCall(<<"User.borrow_book", u, b>>)
        /\ last.exc = "ValueError"
        /\ user[u].active
        /\ Stuck(b)
        /\ Registered(1, b)
        /\ \E i \in DOMAIN library[1].users : library[1].users[i].v = u
        /\ \E i \in DOMAIN file[1].books :
              /\ file[1].books[i].k = book[b].isbn
              /\ "borrowed_by" \in DOMAIN file[1].books[i].v
              /\ file[1].books[i].v.borrowed_by = user[u].id

(***************************************************************************)
(* C23.  A successful u.borrow_book(b) or u.return_book(b) changes only    *)
(* b's available, borrow_date and borrowed_by and u's borrowed_books:      *)
(* every other book, every other user, u's other fields (active among      *)
(* them) and every Library's registries are unchanged.  save_to_file       *)
(* changes no book, no user and no registry.                               *)
(***************************************************************************)
LoanFieldNames == {"available", "borrow_date", "borrowed_by"}

C23_FrameEffect ==
    [][/\ \A u \in Users, b \in Books :
             (/\ \/ Calling(<<"User.borrow_book", u, b>>)
                 \/ Calling(<<"User.return_book", u, b>>)
              /\ last'.exc = "")
               => /\ DOMAIN book' = DOMAIN book
                  /\ DOMAIN user' = DOMAIN user
                  /\ \A c \in Books \ {b} : book'[c] = book[c]
                  /\ \A f \in DOMAIN book[b] \ LoanFieldNames : book'[b][f] = book[b][f]
                  /\ \A v \in Users \ {u} : user'[v] = user[v]
                  /\ \A f \in DOMAIN user[u] \ {"borrowed_books"} : user'[u][f] = user[u][f]
                  /\ library' = library
       /\ \A l \in Libraries :
             Calling(<<"Library.save_to_file", l>>)
               => /\ last'.exc = ""
                  /\ book' = book
                  /\ user' = user
                  /\ library' = library]_vars

\* u has just borrowed b while another book is on loan and a library has a
\* book registered.
C23_Witness ==
    \E u \in Users, b \in Books :
        /\ LastCall(<<"User.borrow_book", u, b>>)
        /\ last.exc = ""
        /\ OnLoanTo(b, u)
        /\ \E c \in Books \ {b} : ~book[c].available
        /\ \E l \in Libraries : library[l].books # <<>>

(***************************************************************************)
(* C24.  Save/load reaches a fixed point after one pass: saving a library  *)
(* that load_from_file built and loading the file again gives a library    *)
(* equal to it on name, location, the ISBN and user-id keys, every book's  *)
(* title, author, isbn, publication_year, genre, available and borrowed_by *)
(* and every user's id, name, email, role, active and (empty)              *)
(* borrowed_books.  Timestamps are not compared.                           *)
(***************************************************************************)
ComparedBookFields ==
    {"title", "author", "isbn", "publication_year", "genre", "available",
     "borrowed_by"}

\* Library x (its objects in the heaps bx, ux) equals library y (in by, uy)
\* on everything but the timestamps.
SameLibrary(x, bx, ux, y, by, uy) ==
    /\ x.name = y.name
    /\ x.location = y.location
    /\ Keys(x.books) = Keys(y.books)
    /\ Keys(x.users) = Keys(y.users)
    /\ \A i \in DOMAIN y.books :
         EqualOn(ComparedBookFields, bx[x.books[i].v], by[y.books[i].v])
    /\ \A i \in DOMAIN y.users :
         /\ EqualOn(UserFields, ux[x.users[i].v], uy[y.users[i].v])
         /\ ux[x.users[i].v].borrowed_books = <<>>

\* Loading what save_to_file writes for lib succeeds and gives lib again.
SecondPassEqual(lib) ==
    LET data == Library_save_data(lib)
        bs == Library_load_books(data.books, <<>>, <<>>)
        us == Library_load_users(data.users, <<>>, <<>>)
    IN /\ bs.exc = ""
       /\ us.exc = ""
       /\ SameLibrary([Library_init(data.name, data.location)
                       EXCEPT !.books = bs.d, !.users = us.d],
                      bs.heap, us.heap, lib, book, user)

C24_SaveLoadFixedPoint ==
    [][/\ \A l \in Libraries : SecondPassEqual(library[l])
       /\ \A l \in Libraries :
             (/\ Calling(<<"Library.load_from_file">>)
              /\ file = <<Library_save_data(library[l])>>)
               => /\ last'.exc = ""
                  /\ last'.ret \notin Libraries
                  /\ SameLibrary(library'[last'.ret], book', user',
                                 library[l], book, user)]_vars

\* The reloaded library, holding a book saved while on loan and an inactive
\* user, was saved at a later instant and load_from_file has just built the
\* second library from that file.
C24_Witness ==
    /\ LastCall(<<"Library.load_from_file">>)
    /\ last.exc = ""
    /\ last.ret = 2
    /\ file = <<Library_save_data(library[1])>>
    /\ library[2].creation_date # library[1].creation_date
    /\ \E i \in DOMAIN library[1].books : ~book[library[1].books[i].v].available
    /\ \E i \in DOMAIN library[1].users : ~user[library[1].users[i].v].active
    /\ \E i \in DOMAIN library[2].books : ~book[library[2].books[i].v].available
    /\ \E i \in DOMAIN library[2].users : ~user[library[2].users[i].v].active

====
